---------------------------- MODULE Spec2Model ----------------------------
(***************************************************************************)
(* Model of package validate of twitter-text-go (src/validate/validate.go). *)
(*                                                                         *)
(* A Go string is modelled as the sequence of its Unicode codepoints (the  *)
(* texts are valid UTF-8); byte offsets are recovered with RuneLen.  The    *)
(* package is a set of pure functions, so the state machine is a caller:    *)
(* Init draws the input, every action is one call of an exported function   *)
(* and records what it returned.                                            *)
(***************************************************************************)
EXTENDS Integers, Sequences, FiniteSets, TLC

VARIABLES
    text,      \* the tweet text handed to the package
    urls,      \* what extract.ExtractUrls reports for text
    ret,       \* the last call on text and what it returned
    prev,      \* the ParseTweet call made before the text was edited
    edit,      \* how the caller edited the text: "none", "nfc", "replace"
    url,       \* the candidate handed to UrlIsValid
    urlRet     \* the last UrlIsValid call and what it returned

vars == <<text, urls, ret, prev, edit, url, urlRet>>

---------------------------------------------------------------------------
(* Bounds of the model *)

MaxPieces == 2       \* pieces of an unpadded text
MaxPadPieces == 1    \* pieces that follow a long padding
MaxUrls == 2         \* URL spans the collaborator reports for a text
MaxUrlPieces == 3    \* pieces of a UrlIsValid candidate
MaxEditLen == 12     \* the longest text in which the caller replaces a codepoint

---------------------------------------------------------------------------
(* validate.go, const block and weight table *)

currentMaxLength == 280
maxV1Length == 140
shortUrlLength == 23
shortHttpsUrlLength == 23
defaultWeight == 200
scale == 100

\* "￾﻿￿‪‫‬‭‮"
invalidChars == <<65534, 65279, 65535, 8234, 8235, 8236, 8237, 8238>>

weightRanges ==
    << [start |-> 0,    end |-> 4351, weight |-> 100],
       [start |-> 8192, end |-> 8205, weight |-> 100],
       [start |-> 8208, end |-> 8223, weight |-> 100],
       [start |-> 8242, end |-> 8247, weight |-> 100] >>

---------------------------------------------------------------------------
(* Codepoints the texts are made of *)

cp ==
    [ space |-> 32, hash |-> 35, hyphen |-> 45, dot |-> 46, slash |-> 47,
      colon |-> 58, question |-> 63,
      c |-> 99, e |-> 101, f |-> 102, h |-> 104, o |-> 111, p |-> 112,
      q |-> 113, s |-> 115, t |-> 116, x |-> 120,
      eAcute |-> 233,          \* U+00E9
      oAcute |-> 243,          \* U+00F3
      acute |-> 769,           \* U+0301 combining acute accent
      choseongK |-> 4352,      \* U+1100 hangul choseong kiyeok
      jungseongA |-> 4449,     \* U+1161 hangul jungseong a
      RLO |-> 8238,            \* U+202E right-to-left override
      CJK |-> 20013,           \* U+4E2D
      syllableGa |-> 44032,    \* U+AC00 hangul syllable ga
      BOM |-> 65279 ]          \* U+FEFF

---------------------------------------------------------------------------
(* Go library functions the package calls *)

\* integer division of Go: truncated toward zero
GoDiv(a, b) == IF a >= 0 THEN a \div b ELSE -((-a) \div b)

\* utf8.RuneLen: the bytes of a codepoint's UTF-8 encoding
RuneLen(r) == IF r < 128 THEN 1 ELSE IF r < 2048 THEN 2 ELSE IF r < 65536 THEN 3 ELSE 4

\* utf8.RuneCountInString
RuneCountInString(s) == Len(s)

\* strings.HasPrefix
HasPrefix(s, p) == Len(s) >= Len(p) /\ SubSeq(s, 1, Len(p)) = p

\* the canonical compositions among the codepoints above: <<first, second, composed>>
Compositions ==
    { <<cp.e, cp.acute, cp.eAcute>>,
      <<cp.o, cp.acute, cp.oAcute>>,
      <<cp.choseongK, cp.jungseongA, cp.syllableGa>> }

ComposingPairs == { <<c[1], c[2]>> : c \in Compositions }

Composes(a, b) == <<a, b>> \in ComposingPairs

Composed(a, b) == (CHOOSE c \in Compositions : c[1] = a /\ c[2] = b)[3]

\* norm.NFC.String on s[lo..hi]: a starter and the mark or jamo right after it
\* compose (no codepoint above is both the second of a pair and the first of
\* another).  The range is halved at a place that parts no composing pair, so
\* that the evaluation stays shallow on a long text.
RECURSIVE NFCRange(_, _, _)
NFCRange(s, lo, hi) ==
    IF lo > hi THEN <<>>
    ELSE IF \A i \in lo..(hi - 1) : ~Composes(s[i], s[i + 1]) THEN SubSeq(s, lo, hi)
    ELSE IF hi = lo + 1
         THEN IF Composes(s[lo], s[hi]) THEN <<Composed(s[lo], s[hi])>> ELSE <<s[lo], s[hi]>>
    ELSE LET mid == (lo + hi) \div 2
             cut == IF Composes(s[mid], s[mid + 1]) THEN mid - 1 ELSE mid
         IN  NFCRange(s, lo, cut) \o NFCRange(s, cut + 1, hi)

NFC(s) == NFCRange(s, 1, Len(s))

\* the byte offset of the codepoint at index i (1-based) of s
RECURSIVE ByteLen(_, _, _)
ByteLen(s, lo, hi) ==
    IF lo > hi THEN 0
    ELSE IF lo = hi THEN RuneLen(s[lo])
    ELSE LET mid == (lo + hi) \div 2 IN ByteLen(s, lo, mid) + ByteLen(s, mid + 1, hi)

ByteOffset(s, i) == ByteLen(s, 1, i - 1)

\* strings.IndexAny: the byte offset of the first codepoint of s that is in
\* chars, -1 when there is none
IndexAny(s, chars) ==
    LET set == { chars[k] : k \in 1..Len(chars) }
        hits == { i \in 1..Len(s) : s[i] \in set }
    IN  IF hits = {} THEN -1
        ELSE ByteOffset(s, CHOOSE i \in hits : \A j \in hits : i <= j)

\* the index (1-based, within lo..hi) of the codepoint of s that holds byte i
RECURSIVE RuneIndexAt(_, _, _, _)
RuneIndexAt(s, i, lo, hi) ==
    IF lo >= hi THEN lo
    ELSE LET mid == (lo + hi + 1) \div 2
         IN  IF ByteOffset(s, mid) <= i THEN RuneIndexAt(s, i, mid, hi)
             ELSE RuneIndexAt(s, i, lo, mid - 1)

\* utf8.DecodeRuneInString(text[i:]), i the byte offset at which a codepoint starts
DecodeRuneInString(s, i) == s[RuneIndexAt(s, i, 1, Len(s))]

---------------------------------------------------------------------------
(* The extraction collaborator (package extract) *)

\* extract.Range.Length
RangeLength(r) == r.Stop - r.Start

\* extract.ExtractUrls: the spans reported for the text of this call
ExtractUrls(t) == urls

---------------------------------------------------------------------------
(* validate.go *)

\* the inner loop of weightedLength: the first range that holds val wins
RECURSIVE rangeWeight(_, _)
rangeWeight(val, k) ==
    IF k > Len(weightRanges) THEN defaultWeight
    ELSE IF val >= weightRanges[k].start /\ val <= weightRanges[k].end
         THEN weightRanges[k].weight
         ELSE rangeWeight(val, k + 1)

\* the weights the table can give a codepoint
Weights == { weightRanges[k].weight : k \in 1..Len(weightRanges) } \cup {defaultWeight}

RECURSIVE sumByWeight(_, _)
sumByWeight(normalized, ws) ==
    IF ws = {} THEN 0
    ELSE LET w == CHOOSE x \in ws : TRUE
         IN  w * Cardinality({ i \in 1..Len(normalized) : rangeWeight(normalized[i], 1) = w })
             + sumByWeight(normalized, ws \ {w})

\* the outer loop of weightedLength: the sum of the weights of the codepoints,
\* taken weight by weight so that the evaluation stays shallow on a long text
sumWeights(normalized) == sumByWeight(normalized, Weights)

\* weightedLength that measures the text as transmitted, without normalizing it
weightedLength_Raw(t) == sumWeights(t)

\* weightedLength that gives a codepoint outside the table no weight
weightedLength_NoDefault(t) ==
    LET normalized == NFC(t)
    IN  sumByWeight(normalized, Weights \ {defaultWeight})

weightedLength(t) == LET normalized == NFC(t) IN sumWeights(normalized)

HttpsPrefix == <<cp.h, cp.t, cp.t, cp.p, cp.s, cp.colon, cp.slash, cp.slash>>

shortLength(u) ==
    IF HasPrefix(u.Text, HttpsPrefix) THEN shortHttpsUrlLength ELSE shortUrlLength

\* the adjustment loop that adds the short length and keeps the URL's own weight
RECURSIVE adjustLoop_NoSubtract(_, _, _, _)
adjustLoop_NoSubtract(us, k, length, adjustments) ==
    IF k > Len(us) THEN adjustments + GoDiv(length, scale)
    ELSE adjustLoop_NoSubtract(us, k + 1, length, adjustments + shortLength(us[k]))

RECURSIVE adjustLoop(_, _, _, _)
adjustLoop(us, k, length, adjustments) ==
    IF k > Len(us) THEN adjustments + GoDiv(length, scale)
    ELSE adjustLoop(us, k + 1, length - weightedLength(us[k].Text),
                    adjustments + shortLength(us[k]))

adjustedWeighedLength(t) == adjustLoop(ExtractUrls(t), 1, weightedLength(t), 0)

RECURSIVE lengthLoop(_, _, _)
lengthLoop(us, k, length) ==
    IF k > Len(us) THEN length
    ELSE lengthLoop(us, k + 1, length - RangeLength(us[k].Range) + shortLength(us[k]))

TweetLength(t) == lengthLoop(ExtractUrls(t), 1, RuneCountInString(NFC(t)))

NilError == [kind |-> "nil"]
EmptyError == [kind |-> "Empty"]
TooLongError(n) == [kind |-> "TooLong", length |-> n]
InvalidCharacterError(r, i) == [kind |-> "InvalidCharacter", Character |-> r, Offset |-> i]

\* validateTweet that looks for an invalid character before it measures
validateTweet_CharsFirst(t, maxLength) ==
    IF t = <<>> THEN EmptyError
    ELSE LET i == IndexAny(t, invalidChars) IN
         IF i > -1 THEN InvalidCharacterError(DecodeRuneInString(t, i), i)
         ELSE LET length == TweetLength(t) IN
              IF length > maxLength THEN TooLongError(length) ELSE NilError

\* validateTweet that rejects a text whose length is the limit itself
validateTweet_AtLimit(t, maxLength) ==
    IF t = <<>> THEN EmptyError
    ELSE LET length == TweetLength(t) IN
         IF length >= maxLength THEN TooLongError(length)
         ELSE LET i == IndexAny(t, invalidChars) IN
              IF i > -1 THEN InvalidCharacterError(DecodeRuneInString(t, i), i)
              ELSE NilError

\* validateTweet that reports the place of the character in codepoints, not bytes
validateTweet_RuneOffset(t, maxLength) ==
    IF t = <<>> THEN EmptyError
    ELSE LET length == TweetLength(t) IN
         IF length > maxLength THEN TooLongError(length)
         ELSE LET i == IndexAny(t, invalidChars) IN
              IF i > -1
              THEN InvalidCharacterError(DecodeRuneInString(t, i), RuneIndexAt(t, i, 1, Len(t)) - 1)
              ELSE NilError

validateTweet(t, maxLength) ==
    IF t = <<>> THEN EmptyError
    ELSE LET length == TweetLength(t) IN
         IF length > maxLength THEN TooLongError(length)
         ELSE LET i == IndexAny(t, invalidChars) IN
              IF i > -1 THEN InvalidCharacterError(DecodeRuneInString(t, i), i)
              ELSE NilError

ValidateTweet(t) == validateTweet(t, maxV1Length)

TweetIsValid(t) == ValidateTweet(t).kind = "nil"

ParseTweet(t) ==
    LET length == adjustedWeighedLength(t)
        err == validateTweet(t, currentMaxLength)
    IN  [tweet |-> [WeightedLength |-> length,
                    Permillage |-> 1000 * GoDiv(length, currentMaxLength),
                    Valid |-> err.kind = "nil"],
         err |-> err]

---------------------------------------------------------------------------
(* The inputs *)

UrlHttp == <<cp.h, cp.t, cp.t, cp.p, cp.colon, cp.slash, cp.slash, cp.t, cp.dot, cp.c, cp.o>>
UrlHttps == <<cp.h, cp.t, cp.t, cp.p, cp.s, cp.colon, cp.slash, cp.slash, cp.t, cp.dot, cp.c, cp.o>>

\* a base and its mark, and a leading and a vowel jamo, come as one piece
TextPieces ==
    { <<cp.x>>, <<cp.e, cp.acute>>, <<cp.eAcute>>, <<cp.jungseongA>>,
      <<cp.choseongK, cp.jungseongA>>, <<cp.CJK>>, <<cp.RLO>>, <<cp.BOM>>,
      UrlHttp, UrlHttps }

\* the pieces that follow a long padding
PadPieces == { <<cp.x>>, <<cp.e, cp.acute>>, <<cp.RLO>>, UrlHttp }

PadChars == {cp.x, cp.CJK}

\* the lengths around the two limits, alone and with one short URL
PadLens ==
    { maxV1Length - shortUrlLength, maxV1Length - 1, maxV1Length, maxV1Length + 1,
      currentMaxLength - shortUrlLength, currentMaxLength - 1, currentMaxLength,
      currentMaxLength + 1 }

SeqsUpTo(S, n) == UNION { [1..k -> S] : k \in 0..n }

RECURSIVE Flatten(_, _)
Flatten(ps, k) == IF k > Len(ps) THEN <<>> ELSE ps[k] \o Flatten(ps, k + 1)

RECURSIVE CutsOf(_, _, _)
CutsOf(ps, k, at) ==
    IF k > Len(ps) THEN {at} ELSE {at} \cup CutsOf(ps, k + 1, at + Len(ps[k]))

Pad(c, n) == [i \in 1..n |-> c]

\* the texts, each as its pieces: short ones, and ones behind a long padding
InputPieces ==
    SeqsUpTo(TextPieces, MaxPieces)
    \cup { <<Pad(c, n)>> \o ps : c \in PadChars, n \in PadLens,
                                 ps \in SeqsUpTo(PadPieces, MaxPadPieces) }

\* the ordered lists of at most k spans that do not overlap, cut at piece ends
RECURSIVE SpanLists(_, _, _)
SpanLists(cuts, k, from) ==
    IF k = 0 THEN { <<>> }
    ELSE { <<>> } \cup
         UNION { { <<[Start |-> a, Stop |-> b]>> \o rest : rest \in SpanLists(cuts, k - 1, b) }
                 : <<a, b>> \in { p \in cuts \X cuts : from <= p[1] /\ p[1] < p[2] } }

\* the entities of the spans: each carries the text it covers
Entities(t, spans) ==
    [k \in 1..Len(spans) |->
        [Text |-> SubSeq(t, spans[k].Start + 1, spans[k].Stop), Range |-> spans[k]]]

NoCall == [fn |-> "none"]
NoPrev == [fn |-> "none"]

InitTweet ==
    \E ps \in InputPieces :
        \E spans \in SpanLists(CutsOf(ps, 1, 0), MaxUrls, 0) :
            /\ text = Flatten(ps, 1)
            /\ urls = Entities(Flatten(ps, 1), spans)
            /\ ret = NoCall
            /\ prev = NoPrev
            /\ edit = "none"
            /\ url = <<>>
            /\ urlRet = NoCall

---------------------------------------------------------------------------
(* The calls: the caller makes one call on the text it submitted *)

CallParseTweet ==
    /\ ret.fn = "none"
    /\ LET r == ParseTweet(text)
       IN  ret' = [fn |-> "ParseTweet", tweet |-> r.tweet, err |-> r.err]
    /\ UNCHANGED <<text, urls, prev, edit, url, urlRet>>

CallValidateTweet ==
    /\ ret.fn = "none"
    /\ ret' = [fn |-> "ValidateTweet", err |-> ValidateTweet(text)]
    /\ UNCHANGED <<text, urls, prev, edit, url, urlRet>>

CallTweetLength ==
    /\ ret.fn = "none"
    /\ ret' = [fn |-> "TweetLength", length |-> TweetLength(text)]
    /\ UNCHANGED <<text, urls, prev, edit, url, urlRet>>

CallTweetIsValid ==
    /\ ret.fn = "none"
    /\ ret' = [fn |-> "TweetIsValid", valid |-> TweetIsValid(text)]
    /\ UNCHANGED <<text, urls, prev, edit, url, urlRet>>

\* the codepoint of the heavier weight the caller puts in: it composes with a
\* vowel jamo after it and with nothing else
HeavyChars == {cp.choseongK}

\* The caller sends a text that is not in NFC again in its NFC form; the
\* collaborator reports the same URLs, at the places they have in that form.
ResubmitNormalized ==
    /\ ret.fn = "ParseTweet"
    /\ edit = "none"
    /\ NFC(text) # text
    /\ text' = NFC(text)
    /\ urls' = Entities(NFC(text),
                 [k \in 1..Len(urls) |->
                    [Start |-> Len(NFC(SubSeq(text, 1, urls[k].Range.Start))),
                     Stop |-> Len(NFC(SubSeq(text, 1, urls[k].Range.Stop)))]])
    /\ prev' = [fn |-> "ParseTweet", text |-> text, tweet |-> ret.tweet]
    /\ ret' = NoCall
    /\ edit' = "nfc"
    /\ UNCHANGED <<url, urlRet>>

\* The caller sends the text again with the codepoint at one place replaced by
\* one of a strictly higher table weight; the collaborator reports the same ranges.
ResubmitReplaced ==
    /\ ret.fn = "ParseTweet"
    /\ edit = "none"
    /\ Len(text) <= MaxEditLen
    /\ \E i \in 1..Len(text), c \in HeavyChars :
          /\ rangeWeight(text[i], 1) < rangeWeight(c, 1)
          /\ text' = [text EXCEPT ![i] = c]
          /\ urls' = Entities([text EXCEPT ![i] = c], [k \in 1..Len(urls) |-> urls[k].Range])
    /\ prev' = [fn |-> "ParseTweet", text |-> text, tweet |-> ret.tweet]
    /\ ret' = NoCall
    /\ edit' = "replace"
    /\ UNCHANGED <<url, urlRet>>

Next ==
    \/ CallParseTweet
    \/ CallValidateTweet
    \/ CallTweetLength
    \/ CallTweetIsValid
    \/ ResubmitNormalized
    \/ ResubmitReplaced

Spec == InitTweet /\ [][Next]_vars


---------------------------------------------------------------------------
(* The URL grammar (the patterns of package validate that UrlIsValid uses) *)

validateUrlUnencodedGroupScheme == 1
validateUrlUnencodedGroupAuthority == 2
validateUrlUnencodedGroupPath == 3
validateUrlUnencodedGroupQuery == 4
validateUrlUnencodedGroupFragment == 5

\* what ends the authority: "/", "?", "#" and white space
AuthorityEnd == {cp.slash, cp.question, cp.hash, cp.space}

\* the end (exclusive, 0-based) of the longest run from offset at of
\* codepoints that are not in stop
RECURSIVE RunEnd(_, _, _)
RunEnd(s, at, stop) ==
    IF at >= Len(s) \/ s[at + 1] \in stop THEN at ELSE RunEnd(s, at + 1, stop)

SchemeMark == <<cp.colon, cp.slash, cp.slash>>

\* the index pairs of a match that starts at offset p
MatchAt(s, p) ==
    LET schemeEnd == RunEnd(s, p, AuthorityEnd \cup {cp.colon})
        hasScheme == /\ schemeEnd > p
                     /\ schemeEnd + 3 < Len(s)
                     /\ SubSeq(s, schemeEnd + 1, schemeEnd + 3) = SchemeMark
                     /\ s[schemeEnd + 4] \notin AuthorityEnd
        authorityStart == IF hasScheme THEN schemeEnd + 3 ELSE p
        authorityEnd == RunEnd(s, authorityStart, AuthorityEnd)
        pathEnd == RunEnd(s, authorityEnd, {cp.question, cp.hash, cp.space})
        hasQuery == pathEnd < Len(s) /\ s[pathEnd + 1] = cp.question
        queryEnd == IF hasQuery THEN RunEnd(s, pathEnd + 1, {cp.hash, cp.space}) ELSE pathEnd
        hasFragment == queryEnd < Len(s) /\ s[queryEnd + 1] = cp.hash
        fragmentEnd == IF hasFragment THEN RunEnd(s, queryEnd + 1, {cp.space}) ELSE queryEnd
    IN  << p, fragmentEnd,
           IF hasScheme THEN p ELSE -1, IF hasScheme THEN schemeEnd ELSE -1,
           authorityStart, authorityEnd,
           authorityEnd, pathEnd,
           IF hasQuery THEN pathEnd + 1 ELSE -1, IF hasQuery THEN queryEnd ELSE -1,
           IF hasFragment THEN queryEnd + 1 ELSE -1, IF hasFragment THEN fragmentEnd ELSE -1 >>

\* validateUrlUnencodedRe.FindStringSubmatchIndex: the leftmost match of
\* [scheme "://"] authority path ["?" query] ["#" fragment], the authority not
\* empty; <<>> for no match, -1 for a group that took no part
FindStringSubmatchIndex(s) ==
    LET starts == { p \in 0..(Len(s) - 1) : s[p + 1] \notin AuthorityEnd }
    IN  IF starts = {} THEN <<>>
        ELSE MatchAt(s, CHOOSE p \in starts : \A q \in starts : p <= q)

IsAsciiAlnum(r) == r \in (48..57) \cup (65..90) \cup (97..122)

\* protocolRe: http or https
protocolRe(s) ==
    s \in { <<cp.h, cp.t, cp.t, cp.p>>, <<cp.h, cp.t, cp.t, cp.p, cp.s>> }

\* validateUrlPathRe: segments led by "/"
validateUrlPathRe(s) ==
    /\ s # <<>> => s[1] = cp.slash
    /\ \A i \in 1..Len(s) : IsAsciiAlnum(s[i]) \/ s[i] \in {cp.slash, cp.dot, cp.hyphen, cp.colon}

\* validateUrlQueryRe
validateUrlQueryRe(s) ==
    \A i \in 1..Len(s) :
        IsAsciiAlnum(s[i]) \/ s[i] \in {cp.slash, cp.dot, cp.hyphen, cp.colon, cp.question}

\* validateUrlFragmentRe
validateUrlFragmentRe(s) ==
    \A i \in 1..Len(s) :
        IsAsciiAlnum(s[i]) \/ s[i] \in {cp.slash, cp.dot, cp.hyphen, cp.colon, cp.question}

\* validateUrlAuthorityRe: an ASCII host
validateUrlAuthorityRe(s) ==
    /\ s # <<>>
    /\ \A i \in 1..Len(s) : IsAsciiAlnum(s[i]) \/ s[i] \in {cp.dot, cp.hyphen}

\* validateUrlUnicodeAuthorityRe: a host whose labels may hold letters beyond ASCII
validateUrlUnicodeAuthorityRe(s) ==
    /\ s # <<>>
    /\ \A i \in 1..Len(s) : IsAsciiAlnum(s[i]) \/ s[i] \in {cp.dot, cp.hyphen} \/ s[i] >= 192

---------------------------------------------------------------------------
(* validate.go, UrlIsValid *)

\* what a slice expression out of range does
Panic == <<-1>>

\* the Go slice expression s[lo:hi]
GoSlice(s, lo, hi) ==
    IF 0 <= lo /\ lo <= hi /\ hi <= Len(s) THEN SubSeq(s, lo + 1, hi) ELSE Panic

\* match[group*2] and match[group*2+1]
GroupSlice(s, match, group) == GoSlice(s, match[group * 2 + 1], match[group * 2 + 2])

\* UrlIsValid without the test that the match is the whole candidate
UrlIsValid_NoSpanCheck(u, requireProtocol, allowUnicode) ==
    IF u = <<>> THEN "false"
    ELSE LET match == FindStringSubmatchIndex(u) IN
    IF match = <<>> THEN "false"
    ELSE IF requireProtocol /\ GroupSlice(u, match, validateUrlUnencodedGroupScheme) = Panic
    THEN "panic"
    ELSE IF requireProtocol /\ ~protocolRe(GroupSlice(u, match, validateUrlUnencodedGroupScheme))
    THEN "false"
    ELSE IF ~validateUrlPathRe(GroupSlice(u, match, validateUrlUnencodedGroupPath))
    THEN "false"
    ELSE IF /\ match[validateUrlUnencodedGroupQuery * 2 + 1] > 0
            /\ ~validateUrlQueryRe(GroupSlice(u, match, validateUrlUnencodedGroupQuery))
    THEN "false"
    ELSE IF /\ match[validateUrlUnencodedGroupFragment * 2 + 1] > 0
            /\ ~validateUrlFragmentRe(GroupSlice(u, match, validateUrlUnencodedGroupFragment))
    THEN "false"
    ELSE LET authority == GroupSlice(u, match, validateUrlUnencodedGroupAuthority) IN
         IF allowUnicode
         THEN IF validateUrlUnicodeAuthorityRe(authority) THEN "true" ELSE "false"
         ELSE IF validateUrlAuthorityRe(authority) THEN "true" ELSE "false"

\* the result is "true", "false", or "panic" when a slice bound is out of range
UrlIsValid(u, requireProtocol, allowUnicode) ==
    IF u = <<>> THEN "false"
    ELSE LET match == FindStringSubmatchIndex(u) IN
    IF match = <<>> \/ GoSlice(u, match[1], match[2]) # u THEN "false"
    ELSE IF requireProtocol /\ GroupSlice(u, match, validateUrlUnencodedGroupScheme) = Panic
    THEN "panic"
    ELSE IF requireProtocol /\ ~protocolRe(GroupSlice(u, match, validateUrlUnencodedGroupScheme))
    THEN "false"
    ELSE IF ~validateUrlPathRe(GroupSlice(u, match, validateUrlUnencodedGroupPath))
    THEN "false"
    ELSE IF /\ match[validateUrlUnencodedGroupQuery * 2 + 1] > 0
            /\ ~validateUrlQueryRe(GroupSlice(u, match, validateUrlUnencodedGroupQuery))
    THEN "false"
    ELSE IF /\ match[validateUrlUnencodedGroupFragment * 2 + 1] > 0
            /\ ~validateUrlFragmentRe(GroupSlice(u, match, validateUrlUnencodedGroupFragment))
    THEN "false"
    ELSE LET authority == GroupSlice(u, match, validateUrlUnencodedGroupAuthority) IN
         IF allowUnicode
         THEN IF validateUrlUnicodeAuthorityRe(authority) THEN "true" ELSE "false"
         ELSE IF validateUrlAuthorityRe(authority) THEN "true" ELSE "false"

\* the pieces of the candidates
UrlPieces ==
    { <<cp.h, cp.t, cp.t, cp.p, cp.colon, cp.slash, cp.slash>>,
      <<cp.f, cp.t, cp.p, cp.colon, cp.slash, cp.slash>>,
      <<cp.t, cp.dot, cp.c, cp.o>>,
      <<cp.eAcute, cp.dot, cp.c, cp.o>>,
      <<cp.slash, cp.p>>,
      <<cp.question, cp.q>>,
      <<cp.hash, cp.f>>,
      <<cp.space, cp.x>> }

InitUrl ==
    \E ps \in SeqsUpTo(UrlPieces, MaxUrlPieces) :
        /\ url = Flatten(ps, 1)
        /\ urlRet = NoCall
        /\ text = <<>>
        /\ urls = <<>>
        /\ ret = NoCall
        /\ prev = NoPrev
        /\ edit = "none"

CallUrlIsValid ==
    /\ urlRet.fn = "none"
    /\ \E requireProtocol \in BOOLEAN, allowUnicode \in BOOLEAN :
          urlRet' = [fn |-> "UrlIsValid", requireProtocol |-> requireProtocol,
                     allowUnicode |-> allowUnicode,
                     result |-> UrlIsValid(url, requireProtocol, allowUnicode)]
    /\ UNCHANGED <<text, urls, ret, prev, edit, url>>

NextUrl == CallUrlIsValid

SpecUrl == InitUrl /\ [][NextUrl]_vars

---------------------------------------------------------------------------
(* What the claims speak of, stated apart from the code *)

\* U+FFFE, U+FEFF, U+FFFF and U+202A..U+202E
Blacklist == {65534, 65279, 65535, 8234, 8235, 8236, 8237, 8238}

HasBlacklisted(t) == \E i \in 1..Len(t) : t[i] \in Blacklist

\* 100 for a codepoint in the ranges of the table, 200 otherwise
InTable(r) ==
    \/ 0 <= r /\ r <= 4351
    \/ 8192 <= r /\ r <= 8205
    \/ 8208 <= r /\ r <= 8223
    \/ 8242 <= r /\ r <= 8247

WeightSum(s) ==
    100 * Cardinality({ i \in 1..Len(s) : InTable(s[i]) })
    + 200 * Cardinality({ i \in 1..Len(s) : ~InTable(s[i]) })

RECURSIVE UrlWeightSum(_)
UrlWeightSum(k) == IF k = 0 THEN 0 ELSE WeightSum(NFC(urls[k].Text)) + UrlWeightSum(k - 1)

RECURSIVE UrlCharCount(_)
UrlCharCount(k) ==
    IF k = 0 THEN 0 ELSE (urls[k].Range.Stop - urls[k].Range.Start) + UrlCharCount(k - 1)

\* the NFC codepoint count with each URL span's character count replaced by 23
LegacyLength == Len(NFC(text)) - UrlCharCount(Len(urls)) + 23 * Len(urls)

IsNFC(t) == NFC(t) = t

\* C1: ValidateTweet returns the error of the first failing check in the order
\* Empty, TooLong, InvalidCharacter: the empty text yields Empty; a text over
\* the limit yields TooLong even with a blacklisted codepoint in it;
\* InvalidCharacter comes only for a non-empty text within the limit; nil
\* comes only when all three checks pass.
C1_FirstFailingCheck ==
    ret.fn = "ValidateTweet" =>
        /\ text = <<>> => ret.err.kind = "Empty"
        /\ (text # <<>> /\ LegacyLength > 140) => ret.err.kind = "TooLong"
        /\ ret.err.kind = "InvalidCharacter" =>
              (text # <<>> /\ LegacyLength <= 140 /\ HasBlacklisted(text))
        /\ ret.err.kind = "nil" <=>
              (text # <<>> /\ LegacyLength <= 140 /\ ~HasBlacklisted(text))

\* a text over the limit that also holds a blacklisted codepoint got TooLong
C1_Witness ==
    /\ ret.fn = "ValidateTweet"
    /\ ret.err.kind = "TooLong"
    /\ HasBlacklisted(text)

\* C2: for a non-empty text without blacklisted codepoints, ParseTweet reports
\* Valid exactly when the WeightedLength is at most 280.
C2_ValidIffWeightedWithinLimit ==
    (ret.fn = "ParseTweet" /\ text # <<>> /\ ~HasBlacklisted(text)) =>
        (ret.tweet.Valid <=> ret.tweet.WeightedLength <= 280)

\* C3: the Permillage of ParseTweet is floor(1000 * WeightedLength / 280),
\* 500 for a WeightedLength of 140 and more than 1000 above 280.
C3_PermillageFloor ==
    ret.fn = "ParseTweet" =>
        /\ ret.tweet.Permillage = (1000 * ret.tweet.WeightedLength) \div 280
        /\ ret.tweet.WeightedLength = 140 => ret.tweet.Permillage = 500
        /\ ret.tweet.WeightedLength > 280 => ret.tweet.Permillage > 1000

\* C4: the WeightedLength of ParseTweet is floor((S - sum of U_i) / 100) + 23 * n,
\* S the weight sum of the normalized text, U_i that of the i-th URL's text,
\* n the number of URL spans.
C4_WeightedLengthFormula ==
    ret.fn = "ParseTweet" =>
        ret.tweet.WeightedLength =
            ((WeightSum(NFC(text)) - UrlWeightSum(Len(urls))) \div 100) + 23 * Len(urls)

\* a text with a heavy codepoint, an http URL and an https URL was parsed
C4_Witness ==
    /\ ret.fn = "ParseTweet"
    /\ Len(urls) = 2
    /\ \E k \in 1..2 : HasPrefix(urls[k].Text, HttpsPrefix)
    /\ \E k \in 1..2 : ~HasPrefix(urls[k].Text, HttpsPrefix)
    /\ \E i \in 1..Len(text) : ~InTable(text[i])

\* C5: ValidateTweet returns TooLong(n) exactly when the text is non-empty and
\* its legacy length n is above 140, and n is the payload; 140 plain letters
\* pass and 141 plain letters yield TooLong(141).
C5_TooLongExactly ==
    ret.fn = "ValidateTweet" =>
        /\ ret.err.kind = "TooLong" <=> (text # <<>> /\ LegacyLength > 140)
        /\ ret.err.kind = "TooLong" => ret.err.length = LegacyLength
        /\ (text = [i \in 1..140 |-> cp.x] /\ urls = <<>>) => ret.err.kind = "nil"
        /\ (text = [i \in 1..141 |-> cp.x] /\ urls = <<>>) =>
              (ret.err.kind = "TooLong" /\ ret.err.length = 141)

\* a text with a URL span was found too long, its payload not its codepoint count
C5_Witness ==
    /\ ret.fn = "ValidateTweet"
    /\ ret.err.kind = "TooLong"
    /\ Len(urls) > 0
    /\ ret.err.length # Len(text)

C10_FirstInvalidCharacter ==
    ret.fn = "ValidateTweet" =>
        /\ ret.err.kind = "InvalidCharacter" =>
              \E i \in 1..Len(text) :
                  /\ text[i] \in Blacklist
                  /\ \A j \in 1..(i - 1) : text[j] \notin Blacklist
                  /\ ret.err.Character = text[i]
                  /\ ret.err.Offset = ByteLen(text, 1, i - 1)
        /\ (text # <<>> /\ LegacyLength <= 140 /\ \E i \in 1..Len(text) : text[i] = 8238) =>
              ret.err.kind = "InvalidCharacter"

\* U+202E was reported behind codepoints of more than one byte
C10_Witness ==
    /\ ret.fn = "ValidateTweet"
    /\ ret.err.kind = "InvalidCharacter"
    /\ ret.err.Character = 8238
    /\ \E i \in 2..Len(text) : text[i] = 8238 /\ ret.err.Offset > i - 1


HostOnly == <<cp.t, cp.dot, cp.c, cp.o>>

\* the candidate holds no "://"
NoScheme(u) == \A i \in 1..(Len(u) - 2) : SubSeq(u, i, i + 2) # SchemeMark

\* C6: with requireProtocol, UrlIsValid returns false, and does not fail, for
\* every candidate without a scheme; without requireProtocol the scheme-less
\* candidate with a valid ASCII authority returns true.
C6_NoSchemeIsFalse ==
    urlRet.fn = "UrlIsValid" =>
        /\ (urlRet.requireProtocol /\ NoScheme(url)) => urlRet.result = "false"
        /\ (~urlRet.requireProtocol /\ url = HostOnly) => urlRet.result = "true"

\* C7: UrlIsValid returns false whenever the grammar matches only a part of
\* the candidate, whatever requireProtocol and allowUnicode are.
C7_FullSpan ==
    (urlRet.fn = "UrlIsValid" /\ FindStringSubmatchIndex(url) # <<>>) =>
        LET match == FindStringSubmatchIndex(url)
        IN  (match[1] # 0 \/ match[2] # Len(url)) => urlRet.result = "false"

\* a valid URL followed by a space and more was rejected
C7_Witness ==
    /\ urlRet.fn = "UrlIsValid"
    /\ url = <<cp.h, cp.t, cp.t, cp.p, cp.colon, cp.slash, cp.slash,
               cp.t, cp.dot, cp.c, cp.o, cp.space, cp.x>>
    /\ UrlIsValid(SubSeq(url, 1, 11), urlRet.requireProtocol, urlRet.allowUnicode) = "true"
    /\ urlRet.result = "false"

===========================================================================
